---- MODULE Spec2Model ----
(***************************************************************************)
(* A model of Lysine.js: the entity data model `Data` (working values,     *)
(* snapshot, dirty tracking), and the database adapter's statement         *)
(* building (identifier quoting, placeholder rewriting, update, insert).   *)
(***************************************************************************)
EXTENDS Integers, Sequences, FiniteSets, TLC

VARIABLES
    phase,      \* entity: "new" (constructor not run), "live", "dead" (constructor threw)
    fresh,      \* Data.fresh
    values,     \* Data.values: attribute name -> stored value, Absent when no own entry
    staged,     \* Data.staged: Undefined, or [fresh, values]
    snap,       \* history: what the last completed snapshoot() call had to capture
    last,       \* history: the last Data call: [op, key, val, err, ret]
    pre,        \* history: Data.values when the last merge call started
    arg,        \* history: the map given to the last merge call
    alias,      \* which objects are one and the same: [map, staged]
    call,       \* history: the last call of an adapter method, with what it produced
    adapters,   \* adapter.ts: the registry of adapters, name -> adapter
    dispatchers,\* adapter.ts: the registry of dispatchers, name -> dispatcher
    result,     \* history: the last call on the registry, or of a constructor
    instances,  \* the adapter instances: each one's pool, and what it has done so far
    pools       \* the number of pools created so far, by any instance

dataVars == <<phase, fresh, values, staged, snap, last, pre, arg, alias>>

sqlVars == <<call>>

regVars == <<adapters, dispatchers, result>>

poolVars == <<instances, pools>>

\* What a call on the entity, on an adapter, on the registry, on an instance's
\* pool leaves alone
exceptData == <<sqlVars, regVars, poolVars>>

exceptSql == <<dataVars, regVars, poolVars>>

exceptReg == <<dataVars, sqlVars, poolVars>>

exceptPool == <<dataVars, sqlVars, regVars>>

vars == <<phase, fresh, values, staged, snap, last, pre, arg, alias, call, adapters,
          dispatchers, result, instances, pools>>

(***************************************************************************)
(* JavaScript values.  A value is written as a string "<type>:<text>", so  *)
(* the number 1 and the string "1" are different values.                   *)
(***************************************************************************)
Null == "null"
Num1 == "num:1"
Str1 == "str:1"
StrX == "str:x"

\* hasOwnProperty(key) is false
Absent == "absent"

\* The value undefined: a field nothing was assigned to, an index with no entry
Undefined == "undefined"

\* The values a caller passes
Raw == {Null, Num1, Str1, StrX}

\* Error classes
Ok == "ok"
TypeError == "TypeError"
UndefinedPropertyError == "UndefinedPropertyError"
UnexpectColumnValueError == "UnexpectColumnValueError"

(***************************************************************************)
(* The entity class: two declared attributes, one of the pass-through type *)
(* and one numeric.  "length" is a name that is no attribute; lodash       *)
(* iterates an object whose own "length" is a non-negative integer as an   *)
(* array, and as any other object when "length" holds something else.      *)
(***************************************************************************)
Keys == {"a", "n", "length"}

attributes == [a |-> "any", n |-> "numeric"]

\* Mapper.hasAttribute
hasAttribute(key) == key \in DOMAIN attributes

\* Mapper.getAttribute: the attribute's type name, or UndefinedPropertyError
getAttribute(key) ==
    IF hasAttribute(key)
    THEN [err |-> Ok, type |-> attributes[key]]
    ELSE [err |-> UndefinedPropertyError, type |-> "none"]

\* Column.isNull
isNull(value) == value = Null

\* Column.normalize: Any returns its input; Numeric coerces a number or a numeric
\* string to the number and fails on anything else
normalize(type, value) ==
    CASE type = "any" -> [err |-> Ok, value |-> value]
      [] type = "numeric" /\ value = Num1 -> [err |-> Ok, value |-> Num1]
      [] type = "numeric" /\ value = Str1 -> [err |-> Ok, value |-> Num1]
      [] OTHER -> [err |-> UnexpectColumnValueError, value |-> value]

\* Column.getDefaultValue: the declared default, null when none is declared
getDefaultValue(type) == Null

\* Column.clone: a copy of a stored value
clone(value) == value

\* An object with no own entries
Empty == [k \in Keys |-> Absent]

OwnKeys(obj) == {k \in Keys : obj[k] # Absent}

\* _.cloneDeep: a new object with the same own entries
cloneDeep(obj) == [k \in Keys |-> IF k \in OwnKeys(obj) THEN clone(obj[k]) ELSE Absent]

\* _.isEqual on two plain objects: the same own keys, with equal values
isEqual(x, y) ==
    /\ OwnKeys(x) = OwnKeys(y)
    /\ \A k \in OwnKeys(x) : x[k] = y[k]

Min(S) == CHOOSE x \in S : \A y \in S : x <= y

\* The field staged: undefined, or an object {fresh, values}
NoObject == [defined |-> FALSE, fresh |-> TRUE, values |-> Empty]

Object(frsh, vals) == [defined |-> TRUE, fresh |-> frsh, values |-> vals]

\* Data.isDirty
isDirty == ~isEqual(values, staged.values)

\* (mutant) set that stores nothing for a null value
setSkipsNull(vals, key, value) ==
    LET attribute == getAttribute(key) IN
    IF attribute.err # Ok
    THEN [err |-> attribute.err, values |-> vals]
    ELSE IF isNull(value)
    THEN [err |-> Ok, values |-> vals]
    ELSE LET n == normalize(attribute.type, value) IN
         IF n.err # Ok
         THEN [err |-> n.err, values |-> vals]
         ELSE [err |-> Ok, values |-> [vals EXCEPT ![key] = n.value]]

\* Data.set on the working values `vals`: the error it throws (Ok when it returns)
\* and the working values it leaves
set(vals, key, value) ==
    LET attribute == getAttribute(key) IN
    IF attribute.err # Ok
    THEN [err |-> attribute.err, values |-> vals]
    ELSE IF isNull(value)
    THEN [err |-> Ok, values |-> [vals EXCEPT ![key] = value]]
    ELSE LET n == normalize(attribute.type, value) IN
         IF n.err # Ok
         THEN [err |-> n.err, values |-> vals]
         ELSE [err |-> Ok, values |-> [vals EXCEPT ![key] = n.value]]

\* A map a caller passes is a sequence of <<key, value>> entries, in insertion order
KeyOf(entry) == entry[1]
ValOf(entry) == entry[2]

\* lodash isLength on the map's own "length" entry: the length when the entry is a
\* non-negative integer, -1 otherwise
arrayLength(m) ==
    IF \E i \in 1..Len(m) : KeyOf(m[i]) = "length" /\ ValOf(m[i]) = Num1
    THEN 1
    ELSE -1

\* lodash isArrayLike
isArrayLike(m) == arrayLength(m) >= 0

\* The (key, value) pairs _.each hands to its callback, in order: the indices below
\* length for an array-like collection, the own entries otherwise
eachEntries(m) ==
    IF isArrayLike(m)
    THEN [i \in 1..arrayLength(m) |-> <<ToString(i - 1), Undefined>>]
    ELSE m

\* (mutant) a merge that swallows every error
RECURSIVE mergeFromSwallowsAll(_, _, _)
mergeFromSwallowsAll(vals, entries, i) ==
    IF i > Len(entries)
    THEN [err |-> Ok, values |-> vals]
    ELSE LET r == set(vals, KeyOf(entries[i]), ValOf(entries[i])) IN
         mergeFromSwallowsAll(r.values, entries, i + 1)

\* The callback of Data.merge over entries[i..]: UndefinedPropertyError is swallowed,
\* any other error ends the iteration and is thrown on
RECURSIVE mergeFrom(_, _, _)
mergeFrom(vals, entries, i) ==
    IF i > Len(entries)
    THEN [err |-> Ok, values |-> vals]
    ELSE LET r == set(vals, KeyOf(entries[i]), ValOf(entries[i])) IN
         IF r.err = Ok
         THEN mergeFrom(r.values, entries, i + 1)
         ELSE IF r.err = UndefinedPropertyError
         THEN mergeFrom(vals, entries, i + 1)
         ELSE [err |-> r.err, values |-> vals]

\* Data.merge
merge(vals, m) == mergeFrom(vals, eachEntries(m), 1)

\* (mutant) get that looks at the working values before the attributes
getOwnFirst(vals, key) ==
    IF vals[key] # Absent
    THEN [err |-> Ok, ret |-> clone(vals[key])]
    ELSE IF ~hasAttribute(key)
    THEN [err |-> UndefinedPropertyError, ret |-> Undefined]
    ELSE [err |-> Ok, ret |-> getDefaultValue(attributes[key])]

\* Data.get: the error it throws, or the value it returns
get(vals, key) ==
    IF ~hasAttribute(key)
    THEN [err |-> UndefinedPropertyError, ret |-> Undefined]
    ELSE IF vals[key] = Absent
    THEN [err |-> Ok, ret |-> getDefaultValue(attributes[key])]
    ELSE [err |-> Ok, ret |-> clone(vals[key])]

\* (mutant) snapshoot stores the working values themselves
snapshootAliasSame == "same"

\* What staged.values shares with the working values once snapshoot has run:
\* nothing, _.cloneDeep returns a new object
snapshootAlias == "none"

\* No aliasing: map says whether the working values are the very map the caller
\* gave the constructor, staged whether staged.values is the working values object
NoAlias == [map |-> FALSE, staged |-> "none"]

\* Data.snapshoot: the snapshot it stores, or TypeError when staged is undefined
snapshoot(stg, frsh, vals) ==
    IF ~stg.defined
    THEN [err |-> TypeError, staged |-> stg]
    ELSE [err |-> Ok, staged |-> Object(frsh, cloneDeep(vals))]

\* (mutant) rollback that restores fresh only
rollbackKeepsValues(stg) == [values |-> values, fresh |-> stg.fresh]

\* Data.rollback: the working values and fresh it leaves
rollback(stg) == [values |-> cloneDeep(stg.values), fresh |-> stg.fresh]

(***************************************************************************)
(* Inputs                                                                  *)
(***************************************************************************)
MaxEntries == 2

\* The values a caller passes for a key
InputValues(key) == IF key = "n" THEN Raw ELSE {Num1, StrX}

Entries == {e \in Keys \X Raw : e[2] \in InputValues(e[1])}

\* The maps given to merge: up to MaxEntries entries with distinct keys, in any order
MergeMaps ==
    {m \in UNION {[1..n -> Entries] : n \in 0..MaxEntries} :
        \A i, j \in 1..Len(m) : i # j => KeyOf(m[i]) # KeyOf(m[j])}

\* The objects given to the constructor: up to MaxEntries own entries
InitObjects ==
    {o \in [Keys -> Raw \cup {Absent}] :
        /\ Cardinality(OwnKeys(o)) <= MaxEntries
        /\ \A k \in OwnKeys(o) : o[k] \in InputValues(k)}

\* The constructor's argument: undefined, or an object
NoArg == [given |-> FALSE, object |-> Empty]

Given(o) == [given |-> TRUE, object |-> o]

ConstructorArgs == {NoArg} \cup {Given(o) : o \in InitObjects}

\* The record of a call: its name and arguments, the error thrown (Ok when it
\* returned), the value returned, and whether the entity was dirty when it started
NoCall ==
    [op |-> "none", key |-> "-", val |-> "-", err |-> Ok, ret |-> "-", was |-> FALSE]

Call(op, key, val, err, ret) ==
    [op |-> op, key |-> key, val |-> val, err |-> err, ret |-> ret, was |-> isDirty]

\* A call other than merge ends the history of the last merge call
Reset == pre' = Empty /\ arg' = <<>>

(***************************************************************************)
(* The entity.  Data is abstract: an instance is an instance of a          *)
(* subclass.  The class declares staged with no initializer, so when the   *)
(* constructor body starts staged is what the instance inherits: nothing   *)
(* (Undefined), or an object the subclass put on its prototype.            *)
(***************************************************************************)
DataInit ==
    /\ phase = "new"
    /\ fresh = TRUE
    /\ values = Empty
    /\ staged \in {NoObject, Object(TRUE, Empty)}
    /\ snap = NoObject
    /\ last = NoCall
    /\ pre = Empty
    /\ arg = <<>>
    /\ alias = NoAlias

\* A write into the working values object: whatever is that same object shows it
Write(vals) ==
    /\ values' = vals
    /\ staged' = IF alias.staged = "same" THEN [staged EXCEPT !.values = vals] ELSE staged

\* new Data(init): snapshoot() first, then the given object becomes the working values
Construct(init) ==
    /\ phase = "new"
    /\ LET s == snapshoot(staged, fresh, values) IN
       IF s.err # Ok
       THEN /\ phase' = "dead"
            /\ last' = Call("construct", "-", "-", s.err, "-")
            /\ UNCHANGED <<fresh, values, staged, snap, alias>>
            /\ Reset
       ELSE /\ phase' = "live"
            /\ staged' = s.staged
            /\ snap' = Object(fresh, values)
            /\ values' = IF init.given THEN init.object ELSE values
            /\ alias' = IF init.given
                        THEN [map |-> TRUE, staged |-> "none"]
                        ELSE [map |-> FALSE, staged |-> snapshootAlias]
            /\ last' = Call("construct", "-", "-", Ok, "-")
            /\ UNCHANGED fresh
            /\ Reset
    /\ UNCHANGED exceptData

\* entity.set(key, value)
Set(key, value) ==
    /\ phase = "live"
    /\ LET r == set(values, key, value) IN
       /\ Write(r.values)
       /\ last' = Call("set", key, value, r.err, "-")
    /\ UNCHANGED <<phase, fresh, snap, alias>>
    /\ Reset
    /\ UNCHANGED exceptData

\* entity.merge(m)
Merge(m) ==
    /\ phase = "live"
    /\ LET r == merge(values, m) IN
       /\ Write(r.values)
       /\ last' = Call("merge", "-", "-", r.err, "-")
    /\ UNCHANGED <<phase, fresh, snap, alias>>
    /\ UNCHANGED exceptData

\* entity.get(key)
Get(key) ==
    /\ phase = "live"
    /\ LET r == get(values, key) IN
       last' = Call("get", key, "-", r.err, r.ret)
    /\ UNCHANGED <<phase, fresh, values, staged, snap, alias>>
    /\ Reset
    /\ UNCHANGED exceptData

\* entity.rollback()
Rollback ==
    /\ phase = "live"
    /\ LET r == rollback(staged) IN
       /\ values' = r.values
       /\ fresh' = r.fresh
    /\ alias' = NoAlias
    /\ last' = Call("rollback", "-", "-", Ok, "-")
    /\ UNCHANGED <<phase, staged, snap>>
    /\ Reset
    /\ UNCHANGED exceptData

\* entity.snapshoot()
Snapshoot ==
    /\ phase = "live"
    /\ LET s == snapshoot(staged, fresh, values) IN
       staged' = s.staged
    /\ snap' = Object(fresh, values)
    /\ alias' = [alias EXCEPT !.staged = snapshootAlias]
    /\ last' = Call("snapshoot", "-", "-", Ok, "-")
    /\ UNCHANGED <<phase, fresh, values>>
    /\ Reset
    /\ UNCHANGED exceptData

\* Mapper.save(entity) succeeding: the entity is marked non-fresh and snapshotted
Save ==
    /\ phase = "live"
    /\ fresh' = FALSE
    /\ LET s == snapshoot(staged, FALSE, values) IN
       staged' = s.staged
    /\ snap' = Object(FALSE, values)
    /\ alias' = [alias EXCEPT !.staged = snapshootAlias]
    /\ last' = Call("save", "-", "-", Ok, "-")
    /\ UNCHANGED <<phase, values>>
    /\ Reset
    /\ UNCHANGED exceptData

\* No adapter method was called
NoSqlCall == [fn |-> "none"]

SqlIdle == call = NoSqlCall

\* The names adapters are registered and looked up under
Names == {"a", "b"}

\* No adapter: what Map.get returns for a name never set
NoAdapter == [kind |-> "undefined", client |-> "-", owner |-> "-"]

\* No dispatcher, written as the function to no name at all
DispatchArgs == {"x", "y"}

NoDispatcher == [x \in DispatchArgs |-> "-"]

NoResult == [op |-> "none", name |-> "-", args |-> "-", err |-> Ok, ret |-> NoAdapter]

\* let adapters = Map(); let dispatchers = Map()
RegIdle ==
    /\ adapters = [n \in Names |-> NoAdapter]
    /\ dispatchers = [n \in Names |-> NoDispatcher]
    /\ result = NoResult

\* History of merge calls: kept, or not kept
Record(m) == pre' = values /\ arg' = m

Forget == UNCHANGED <<pre, arg>>

DataNext ==
    \/ \E init \in ConstructorArgs : Construct(init)
    \/ \E e \in Entries : Set(KeyOf(e), ValOf(e))
    \/ \E m \in MergeMaps : Merge(m) /\ Forget
    \/ \E key \in Keys : Get(key)
    \/ Rollback
    \/ Snapshoot
    \/ Save

\* The adapter instances
Insts == {1, 2}

\* The events _pool registers pool.close for
Signals == {"exit", "SIGHUP", "SIGINT", "SIGQUIT"}

\* No pool: this.pool of part_000, this.client of adapter.ts, not set
NoPool == 0

\* An adapter just constructed, an Adapter of part_000 ("js") or a DBAdapter of
\* adapter.ts ("ts"): pool is the pool it has, created how many it has created,
\* handlers how often it has registered a handler for each signal, ops the
\* operations run on it, disconnects the disconnect() calls that destroyed a pool
NewInstance(impl) ==
    [impl |-> impl, pool |-> NoPool, created |-> 0, handlers |-> [e \in Signals |-> 0],
     ops |-> 0, disconnects |-> 0]

PoolIdle ==
    /\ instances = [i \in Insts |-> NewInstance("js")]
    /\ pools = 0

\* The entity under every call
Init == DataInit /\ SqlIdle /\ RegIdle /\ PoolIdle

Spec == Init /\ [][DataNext]_vars

MergeNext ==
    \/ \E init \in ConstructorArgs : Construct(init)
    \/ \E e \in Entries : Set(KeyOf(e), ValOf(e))
    \/ \E m \in MergeMaps : Merge(m) /\ Record(m)

\* The entity under construction, set and merge, with each merge call's input kept
MergeSpec == Init /\ [][MergeNext]_vars

(***************************************************************************)
(* Claims about the entity                                                 *)
(***************************************************************************)

\* C1 (as claimed): the constructor returns, with or without an initial object, and
\* the entity is not dirty right after it.
C1_ConstructedClean ==
    last.op = "construct" => (last.err = Ok /\ phase = "live" /\ ~isDirty)

\* C2: right after rollback() the working values equal the values the last
\* snapshoot() call captured, fresh is the fresh of that moment, and the entity is
\* not dirty.
C2_RollbackRestores ==
    last.op = "rollback" =>
        /\ snap.defined
        /\ values = snap.values
        /\ fresh = snap.fresh
        /\ ~isDirty

\* A rollback of a dirty entity to a snapshot that holds entries
C2_Witness ==
    /\ last.op = "rollback"
    /\ last.was
    /\ snap.values # Empty
    /\ ~snap.fresh

\* The snapshot's value for a key: Absent when the snapshot has no entry
SnapValue(key) == snap.values[key]

\* What set stores for a value it accepts
Stored(key, value) ==
    IF isNull(value) THEN value ELSE normalize(attributes[key], value).value

\* isDirty() is true exactly when the working values differ from the snapshot
DirtyIffDiffers == phase = "live" => (isDirty <=> values # snap.values)

\* C3 (as claimed): isDirty() is true exactly when the working values differ from
\* the snapshot, and after a set that returned, with a value that differs from the
\* snapshot's value for the key, isDirty() is true.
C3_SetDirties ==
    /\ DirtyIffDiffers
    /\ (last.op = "set" /\ last.err = Ok /\ last.val # SnapValue(last.key)) => isDirty

\* C3 (amended): isDirty() is true exactly when the working values differ from the
\* snapshot, and after a set that returned, whose normalized value differs from the
\* snapshot's value for the key, isDirty() is true.
C3_SetDirtiesNormalized ==
    /\ DirtyIffDiffers
    /\ (/\ last.op = "set"
        /\ last.err = Ok
        /\ Stored(last.key, last.val) # SnapValue(last.key)) => isDirty

\* A set, on a clean entity, of a key the snapshot has no entry for
C3_Witness ==
    /\ last.op = "set"
    /\ last.err = Ok
    /\ ~last.was
    /\ SnapValue(last.key) = Absent
    /\ isDirty

\* The entries of a map whose key is a declared attribute
IsDeclared(entry) == hasAttribute(KeyOf(entry))

\* The working values with every declared key of the map m assigned as by set
RECURSIVE AssignDeclared(_, _, _)
AssignDeclared(vals, m, i) ==
    IF i > Len(m)
    THEN vals
    ELSE IF IsDeclared(m[i])
    THEN AssignDeclared(set(vals, KeyOf(m[i]), ValOf(m[i])).values, m, i + 1)
    ELSE AssignDeclared(vals, m, i + 1)

\* set accepts every declared entry of the map m
AllAccepted(m) ==
    \A i \in 1..Len(m) : IsDeclared(m[i]) => set(Empty, KeyOf(m[i]), ValOf(m[i])).err = Ok

\* C4 (as claimed): a merge of a map of declared and undeclared keys, whose declared
\* values set accepts, returns; every declared key is assigned as by set and no
\* entry is added for an undeclared key.
C4_MergeAssignsDeclared ==
    (last.op = "merge" /\ AllAccepted(arg)) =>
        /\ last.err = Ok
        /\ values = AssignDeclared(pre, arg, 1)

\* A merge of a declared key and an undeclared one that assigned the declared key
C4_Witness ==
    /\ last.op = "merge"
    /\ last.err = Ok
    /\ \E i, j \in 1..Len(arg) : IsDeclared(arg[i]) /\ ~IsDeclared(arg[j])
    /\ values # pre
    /\ values = AssignDeclared(pre, arg, 1)

\* The error set throws for an entry: it depends on the key and the value only
SetError(entry) == set(Empty, KeyOf(entry), ValOf(entry)).err

\* The entries, in iteration order, for which set fails with an error that is not
\* UndefinedPropertyError
Failing(entries) ==
    {i \in 1..Len(entries) : SetError(entries[i]) \notin {Ok, UndefinedPropertyError}}

\* C5: when set fails inside merge with an error other than UndefinedPropertyError,
\* merge throws that error; the failing key and the keys after it in iteration order
\* keep the values they had.  Merge throws nothing else.
C5_MergePropagates ==
    last.op = "merge" =>
        LET entries == eachEntries(arg)
            failing == Failing(entries)
        IN  IF failing = {}
            THEN last.err = Ok
            ELSE /\ last.err = SetError(entries[Min(failing)])
                 /\ \A j \in Min(failing)..Len(entries) :
                        values[KeyOf(entries[j])] = pre[KeyOf(entries[j])]

\* A merge that failed on its first key and left the next one, which set accepts
\* and which would have changed the working values
C5_Witness ==
    /\ last.op = "merge"
    /\ last.err = UnexpectColumnValueError
    /\ values = pre
    /\ \E j \in 2..Len(arg) :
          /\ (j - 1) \in Failing(arg)
          /\ IsDeclared(arg[j])
          /\ SetError(arg[j]) = Ok
          /\ pre[KeyOf(arg[j])] # Stored(KeyOf(arg[j]), ValOf(arg[j]))

\* C6: get(key) throws UndefinedPropertyError exactly when key is no declared
\* attribute; for a declared key it returns the type's default when the working
\* values have no own entry and the stored value otherwise; it changes neither
\* values nor staged nor fresh.
C6_Get ==
    [][last'.op = "get" =>
        /\ UNCHANGED <<values, staged, fresh>>
        /\ (last'.err = UndefinedPropertyError) <=> (last'.key \notin DOMAIN attributes)
        /\ last'.err \in {Ok, UndefinedPropertyError}
        /\ last'.err = Ok =>
              last'.ret = IF values[last'.key] = Absent
                          THEN getDefaultValue(attributes[last'.key])
                          ELSE values[last'.key]]_vars

\* A get of an undeclared key for which the working values hold an entry
C6_Witness ==
    /\ last.op = "get"
    /\ last.err = UndefinedPropertyError
    /\ values[last.key] # Absent

(***************************************************************************)
(* The adapter.  A text is a sequence of pieces: a piece is one character, *)
(* or a run of characters none of which is ?, ' or \, so that a scan of    *)
(* the pieces meets what a scan of the characters meets.                   *)
(***************************************************************************)
Quote == "'"
Backslash == "\\"
Placeholder == "?"
Dot == "."

DoubleQuote == "\""

\* The grave accent, MySQL's identifier quote (a piece of its own, written out
\* because a TLA+ string cannot hold the character)
GraveAccent == "grave"

\* _driver[...]._identifier_symbol
IdentifierSymbol(driver) == IF driver = "postgres" THEN DoubleQuote ELSE GraveAccent

Drivers == {"postgres", "mysql"}

\* String.indexOf, counted from 1; 0 when the piece does not occur
IndexOf(text, c) ==
    IF \E i \in 1..Len(text) : text[i] = c
    THEN Min({i \in 1..Len(text) : text[i] = c})
    ELSE 0

\* String.substring, with both ends counted from 1 and included
Sub(text, from, to) ==
    IF to < from THEN <<>> ELSE [j \in 1..(to - from + 1) |-> text[from + j - 1]]

\* String.replace(c, ''): the first occurrence of c removed
RemoveFirst(text, c) ==
    LET i == IndexOf(text, c) IN
    IF i = 0 THEN text ELSE Sub(text, 1, i - 1) \o Sub(text, i + 1, Len(text))

\* String.split(sep)
RECURSIVE Split(_, _)
Split(text, sep) ==
    LET i == IndexOf(text, sep) IN
    IF i = 0
    THEN <<text>>
    ELSE <<Sub(text, 1, i - 1)>> \o Split(Sub(text, i + 1, Len(text)), sep)

\* Array.join(sep)
RECURSIVE Join(_, _)
Join(parts, sep) ==
    IF Len(parts) = 0 THEN <<>>
    ELSE IF Len(parts) = 1 THEN parts[1]
    ELSE parts[1] \o <<sep>> \o Join(Tail(parts), sep)

\* Adapter.prototype.quoteIdentifier on a string
quoteIdentifier(symbol, identifier) ==
    IF Sub(identifier, 1, Min({1, Len(identifier)})) = <<symbol>>
    THEN identifier
    ELSE LET segments == Split(RemoveFirst(identifier, symbol), Dot) IN
         Join([i \in 1..Len(segments) |-> <<symbol>> \o segments[i] \o <<symbol>>], Dot)

\* The marker $k
Marker(k) == "$" \o ToString(k)

\* The loop of _replacePlaceholder from index i: counter, quote and p (the piece
\* pushed last) are the loop's variables
RECURSIVE scan(_, _, _, _, _)
scan(sql, i, counter, quote, p) ==
    IF i > Len(sql)
    THEN <<>>
    ELSE LET q == IF sql[i] = Quote /\ p # Backslash THEN ~quote ELSE quote
             hit == sql[i] = Placeholder /\ ~q
             c == IF hit THEN Marker(counter) ELSE sql[i]
         IN  <<c>> \o scan(sql, i + 1, IF hit THEN counter + 1 ELSE counter, q, c)

\* _driver.postgres._replacePlaceholder
replacePlaceholder(sql) ==
    IF IndexOf(sql, Placeholder) = 0
    THEN sql
    ELSE scan(sql, 1, 1, FALSE, Undefined)

\* String.replace(c, by): the first occurrence of c replaced by the pieces by
ReplaceFirst(text, c, by) ==
    LET i == IndexOf(text, c) IN
    IF i = 0 THEN text ELSE Sub(text, 1, i - 1) \o by \o Sub(text, i + 1, Len(text))

\* Adapter.prototype.quote: value is null, undefined, an Expr or a string
quote(value) ==
    IF value.kind = "expr" THEN value.text
    ELSE IF value.kind \in {"null", "undefined"} THEN <<"NULL">>
    ELSE <<Quote>> \o ReplaceFirst(value.text, Quote, <<Backslash, Quote>>) \o <<Quote>>

\* _driver.postgres._lastIdStatement(table, column), as the text it returns: an
\* empty table or column stands for a missing one
postgresLastIdStatement(table, column) ==
    IF table = <<>> \/ column = <<>>
    THEN <<"SELECT LASTVAL() AS last_id">>
    ELSE LET parts == Split(RemoveFirst(table, DoubleQuote), Dot)
             schema == IF Len(parts) = 2 THEN parts[1] ELSE <<>>
             name == IF Len(parts) = 2 THEN parts[2] ELSE parts[1]
             sequence == name \o <<"_">> \o column \o <<"_seq">>
             qualified == IF schema # <<>> THEN schema \o <<Dot>> \o sequence ELSE sequence
         IN  <<"SELECT CURRVAL('">> \o quoteIdentifier(DoubleQuote, qualified)
             \o <<"') AS last_id">>

\* The _.each of update over data from entry i: the SET fragments and the params
RECURSIVE setList(_, _, _)
setList(symbol, data, i) ==
    IF i > Len(data)
    THEN [set |-> <<>>, params |-> <<>>]
    ELSE LET column == quoteIdentifier(symbol, KeyOf(data[i]))
             value == ValOf(data[i])
             rest == setList(symbol, data, i + 1)
         IN  IF value.expr
             THEN [set |-> <<column \o <<" = ">> \o value.text>> \o rest.set,
                   params |-> rest.params]
             ELSE [set |-> <<column \o <<" = ", Placeholder>>>> \o rest.set,
                   params |-> value.text \o rest.params]

\* No where argument (undefined, or the empty string)
NoWhere == <<>>

\* The where_params update sends: none when where is falsy or where_params is
\* undefined, else the array, or the arguments after where
whereParams(w) ==
    IF w.where = NoWhere \/ w.kind = "undefined" THEN <<>> ELSE w.items

\* Adapter.prototype.query: the postgres driver's query rewrites the placeholders
query(driver, sql, params) ==
    [sql |-> IF driver = "postgres" THEN replacePlaceholder(sql) ELSE sql,
     params |-> params]

\* Adapter.prototype.update
update(driver, table, data, w) ==
    LET symbol == IdentifierSymbol(driver)
        s == setList(symbol, data, 1)
        sql == <<"UPDATE ">> \o quoteIdentifier(symbol, table) \o <<" SET ">>
               \o Join(s.set, ",")
               \o (IF w.where # NoWhere THEN <<" WHERE ">> \o w.where ELSE <<>>)
    IN  query(driver, sql, s.params \o whereParams(w))

(***************************************************************************)
(* Inputs of the adapter                                                   *)
(***************************************************************************)
MaxLen == 5

SqlAlphabet == {Placeholder, Quote, Backslash, "a"}

SqlTexts == UNION {[1..n -> SqlAlphabet] : n \in 0..MaxLen}

IdentifierAlphabet(driver) == {IdentifierSymbol(driver), Dot, "a"}

\* The identifiers given to quoteIdentifier: every dot-separated segment holds a name
Identifiers(driver) ==
    {t \in UNION {[1..n -> IdentifierAlphabet(driver)] : n \in 0..MaxLen} :
        \A i \in 1..Len(Split(t, Dot)) : IndexOf(Split(t, Dot)[i], "a") # 0}

\* A value given for a column: a plain value, sent as a parameter, or a raw
\* expression (Expr), written into the statement
Plain(v) == [expr |-> FALSE, text |-> <<v>>]

Expr(text) == [expr |-> TRUE, text |-> text]

ColumnValues == {Plain("1"), Plain("2"), Expr(<<"NOW()">>)}

Columns == {<<"a">>, <<"b">>}

\* The data given to update: entries <<column, value>> with distinct columns
UpdateData ==
    {d \in UNION {[1..n -> Columns \X ColumnValues] : n \in 1..MaxEntries} :
        \A i, j \in 1..Len(d) : i # j => KeyOf(d[i]) # KeyOf(d[j])}

\* The where fragments given to update, each with the parameters its placeholders
\* need: one placeholder; a ? inside a literal; a literal that holds an escaped
\* backslash, then a placeholder; two placeholders
WhereOne == <<"w = ", Placeholder>>
WhereQuoted == <<"w = ", Quote, Placeholder, Quote>>
WhereBackslash == <<"w = ", Quote, Backslash, Backslash, Quote, " AND v = ", Placeholder>>
WhereTwo == <<"w = ", Placeholder, " AND v = ", Placeholder>>

\* The where_params argument: undefined, an array, or the parameters one by one
\* (the arguments after where)
WhereArgs(where, kind, items) == [where |-> where, kind |-> kind, items |-> items]

UpdateWheres ==
    {WhereArgs(NoWhere, "undefined", <<>>),
     WhereArgs(NoWhere, "array", <<"p1">>),
     WhereArgs(WhereOne, "array", <<"p1">>),
     WhereArgs(WhereOne, "rest", <<"p1">>),
     WhereArgs(WhereQuoted, "undefined", <<>>),
     WhereArgs(WhereQuoted, "array", <<>>),
     WhereArgs(WhereBackslash, "array", <<"p1">>),
     WhereArgs(WhereTwo, "array", <<"p1", "p2">>),
     WhereArgs(WhereTwo, "rest", <<"p1", "p2">>)}

QuoteAlphabet == {Quote, Backslash, "a"}

\* The values given to quote
QuoteValues ==
    {[kind |-> "null", text |-> <<>>], [kind |-> "undefined", text |-> <<>>],
     [kind |-> "expr", text |-> <<"NOW()">>], [kind |-> "expr", text |-> <<"a", Quote>>]}
    \cup {[kind |-> "string", text |-> t] :
            t \in UNION {[1..n -> QuoteAlphabet] : n \in 0..MaxLen}}

\* The table names given to _lastIdStatement: none, a table, a schema and a
\* table, and each with its names quoted
TableNames ==
    {<<>>, <<"t">>, <<"s", Dot, "t">>,
     <<DoubleQuote, "t", DoubleQuote>>,
     <<DoubleQuote, "s", DoubleQuote, Dot, "t">>,
     <<"s", Dot, DoubleQuote, "t", DoubleQuote>>,
     <<DoubleQuote, "s", DoubleQuote, Dot, DoubleQuote, "t", DoubleQuote>>}

ColumnNames == {<<>>, <<"id">>}

\* The returning argument of insert: undefined, one column name, or an array
ReturningArgs ==
    {[kind |-> "undefined", columns |-> <<>>],
     [kind |-> "string", columns |-> <<"id">>],
     [kind |-> "array", columns |-> <<>>],
     [kind |-> "array", columns |-> <<"id">>],
     [kind |-> "array", columns |-> <<"id", "seq">>]}

\* The calls made to the adapter, each not yet run
ReplacePlaceholderCalls ==
    {[fn |-> "replacePlaceholder", pc |-> "called", sql |-> sql, out |-> <<>>] :
        sql \in SqlTexts}

QuoteIdentifierCalls ==
    UNION {{[fn |-> "quoteIdentifier", pc |-> "called", driver |-> driver,
             identifier |-> identifier, out |-> <<>>] :
                identifier \in Identifiers(driver)} : driver \in Drivers}

QuoteCalls ==
    {[fn |-> "quote", pc |-> "called", value |-> value, out |-> <<>>] :
        value \in QuoteValues}

LastIdStatementCalls ==
    {[fn |-> "lastIdStatement", pc |-> "called", table |-> table, column |-> column,
      out |-> <<>>] : table \in TableNames, column \in ColumnNames}

UpdateCalls ==
    {[fn |-> "update", pc |-> "called", driver |-> driver, table |-> <<"t">>,
      data |-> data, w |-> w, out |-> [sql |-> <<>>, params |-> <<>>]] :
        driver \in Drivers, data \in UpdateData, w \in UpdateWheres}

\* The connections of the pool
Conns == {1, 2}

\* No connection
NoConn == 0

\* insert on the Adapter of part_000 ("js", either driver) and on MysqlAdapter
\* ("ts"): sent are the statements handed to the database so far and on the
\* connection each was sent on, inserted what became of the INSERT ("no" while it
\* is not sent, then "sent", then "ok" or "failed"), pending the last-id lookups
\* not yet answered, conn the connection acquired, held whether the call holds
\* it, released how often it gave one back
InsertCalls ==
    {c \in [fn : {"insert"}, pc : {"called"}, impl : {"js", "ts"}, driver : Drivers,
            arg : ReturningArgs, returning : {<<>>}, sent : {<<>>}, on : {<<>>},
            inserted : {"no"}, pending : {{}}, conn : {NoConn}, held : {FALSE},
            released : {0}, err : {Ok}] :
        c.impl = "ts" => (c.driver = "mysql" /\ c.arg.kind # "string")}

SqlCalls ==
    ReplacePlaceholderCalls \cup QuoteIdentifierCalls \cup QuoteCalls \cup UpdateCalls
    \cup InsertCalls \cup LastIdStatementCalls

SqlInit == DataInit /\ call \in SqlCalls /\ RegIdle /\ PoolIdle

\* adapter._replacePlaceholder(sql) on a postgres adapter
ReplacePlaceholder ==
    /\ call.fn = "replacePlaceholder"
    /\ call.pc = "called"
    /\ call' = [call EXCEPT !.pc = "returned", !.out = replacePlaceholder(call.sql)]
    /\ UNCHANGED exceptSql

\* adapter.quoteIdentifier(identifier)
QuoteIdentifier ==
    /\ call.fn = "quoteIdentifier"
    /\ call.pc = "called"
    /\ call' = [call EXCEPT !.pc = "returned",
                            !.out = quoteIdentifier(IdentifierSymbol(call.driver),
                                                    call.identifier)]
    /\ UNCHANGED exceptSql

\* adapter.quote(value)
QuoteValue ==
    /\ call.fn = "quote"
    /\ call.pc = "called"
    /\ call' = [call EXCEPT !.pc = "returned", !.out = quote(call.value)]
    /\ UNCHANGED exceptSql

\* adapter._lastIdStatement(table, column) on a postgres adapter
LastIdStatement ==
    /\ call.fn = "lastIdStatement"
    /\ call.pc = "called"
    /\ call' = [call EXCEPT !.pc = "returned",
                            !.out = postgresLastIdStatement(call.table, call.column)]
    /\ UNCHANGED exceptSql

\* adapter.update(table, data, where, where_params): the statement and the
\* parameters handed to _query
Update ==
    /\ call.fn = "update"
    /\ call.pc = "called"
    /\ call' = [call EXCEPT !.pc = "returned",
                            !.out = update(call.driver, call.table, call.data, call.w)]
    /\ UNCHANGED exceptSql

\* The error a failed connection or statement reports
DriverError == "DriverError"

\* new Error(), of no class of its own
PlainError == "Error"

\* The INSERT statement
InsertStatement == [kind |-> "insert", of |-> "-"]

\* _lastIdStatement(table, column), as far as what it looks up: the connection's
\* last insert id on mysql, the column's sequence on postgres
lastIdStatement(driver, column) ==
    [kind |-> "lastId", of |-> IF driver = "mysql" THEN "last_insert_id" ELSE column]

\* The returning of Adapter.prototype.insert after its first lines: [] for
\* undefined, [returning] for what is no array
returningList(given) == given.columns

\* Adapter.prototype.insert up to its return: the statement is built and a
\* connection asked of the pool
adapterInsert(c) ==
    [c EXCEPT !.pc = "acquiring", !.returning = returningList(c.arg)]

AdapterInsert ==
    /\ call.fn = "insert"
    /\ call.impl = "js"
    /\ call.pc = "called"
    /\ call' = adapterInsert(call)
    /\ UNCHANGED exceptSql

\* (mutant) the finally does not release
releaseNot(c) == c

\* pool.release(conn) in the finally of insert
release(c) == [c EXCEPT !.held = FALSE, !.released = c.released + 1]

\* The pool answers acquire: with a connection, on which the INSERT is sent, or
\* with an error, which rejects the call
Acquired(ok) ==
    /\ call.fn = "insert"
    /\ call.pc = "acquiring"
    /\ \E conn \in Conns :
          call' = IF ok
                  THEN [call EXCEPT !.pc = "inserting", !.held = TRUE, !.conn = conn,
                                    !.sent = <<InsertStatement>>, !.on = <<conn>>,
                                    !.inserted = "sent"]
                  ELSE [call EXCEPT !.pc = "rejected", !.err = DriverError]
    /\ UNCHANGED exceptSql

\* (mutant) the lookups are sent whatever became of the INSERT
QueriedAnyway(ok) ==
    /\ call.fn = "insert"
    /\ call.pc = "inserting"
    /\ call' = [call EXCEPT
                   !.pc = "lookup",
                   !.inserted = IF ok THEN "ok" ELSE "failed",
                   !.pending = 1..Len(call.returning),
                   !.sent = call.sent \o
                            [i \in 1..Len(call.returning) |->
                               lastIdStatement(call.driver, call.returning[i])],
                   !.on = call.on \o [i \in 1..Len(call.returning) |-> call.conn]]
    /\ UNCHANGED exceptSql

\* The INSERT is answered: without returning the call resolves, else one lookup
\* per returning column is sent at once; an error rejects the call.  The finally
\* releases the connection when the call settles.
Queried(ok) ==
    /\ call.fn = "insert"
    /\ call.pc = "inserting"
    /\ call' = IF ~ok
               THEN release([call EXCEPT !.pc = "rejected", !.err = DriverError,
                                         !.inserted = "failed"])
               ELSE IF call.returning = <<>>
               THEN release([call EXCEPT !.pc = "resolved", !.inserted = "ok"])
               ELSE [call EXCEPT
                        !.pc = "lookup",
                        !.inserted = "ok",
                        !.pending = 1..Len(call.returning),
                        !.sent = call.sent \o
                                 [i \in 1..Len(call.returning) |->
                                    lastIdStatement(call.driver, call.returning[i])],
                        !.on = call.on \o [i \in 1..Len(call.returning) |-> call.conn]]
    /\ UNCHANGED exceptSql

\* The lookup of the i-th returning column is answered.  Q.spread resolves when
\* all are answered and rejects at the first error, and the finally then releases
\* the connection; an answer after that changes nothing but what is pending.
LastIdQueried(i, ok) ==
    /\ call.fn = "insert"
    /\ call.impl = "js"
    /\ i \in call.pending
    /\ LET c == [call EXCEPT !.pending = call.pending \ {i}] IN
       call' = IF call.pc # "lookup" THEN c
               ELSE IF ~ok THEN release([c EXCEPT !.pc = "rejected", !.err = DriverError])
               ELSE IF c.pending = {} THEN release([c EXCEPT !.pc = "resolved"])
               ELSE c
    /\ UNCHANGED exceptSql

\* MysqlAdapter.insert up to its await: more than one returning column throws,
\* else the statement is built and executed
mysqlAdapterInsert(c) ==
    IF Len(c.arg.columns) > 1
    THEN [c EXCEPT !.pc = "rejected", !.err = PlainError]
    ELSE [c EXCEPT !.pc = "executing", !.returning = c.arg.columns,
                   !.sent = <<InsertStatement>>, !.on = <<NoConn>>, !.inserted = "sent"]

MysqlAdapterInsert ==
    /\ call.fn = "insert"
    /\ call.impl = "ts"
    /\ call.pc = "called"
    /\ call' = mysqlAdapterInsert(call)
    /\ UNCHANGED exceptSql

\* DBAdapter.execute settles: with the result, or with the driver's error
Executed(ok) ==
    /\ call.fn = "insert"
    /\ call.pc = "executing"
    /\ call' = IF ok
               THEN [call EXCEPT !.pc = "resolved", !.inserted = "ok"]
               ELSE [call EXCEPT !.pc = "rejected", !.err = DriverError,
                                 !.inserted = "failed"]
    /\ UNCHANGED exceptSql

SqlNext ==
    \/ ReplacePlaceholder
    \/ QuoteIdentifier
    \/ QuoteValue
    \/ LastIdStatement
    \/ Update
    \/ AdapterInsert
    \/ \E ok \in BOOLEAN : Acquired(ok)
    \/ \E ok \in BOOLEAN : Queried(ok)
    \/ \E i \in (IF call.fn = "insert" THEN call.pending ELSE {}), ok \in BOOLEAN :
          LastIdQueried(i, ok)
    \/ MysqlAdapterInsert
    \/ \E ok \in BOOLEAN : Executed(ok)

\* The adapter, on every call
SqlSpec == SqlInit /\ [][SqlNext]_vars
\* The adapter when the pool answers every acquire and the database every
\* statement, with a result or with an error
SqlLiveSpec ==
    /\ SqlSpec
    /\ WF_vars(\E ok \in BOOLEAN : Acquired(ok))
    /\ WF_vars(\E ok \in BOOLEAN : Queried(ok))
    /\ WF_vars(\E i \in (IF call.fn = "insert" THEN call.pending ELSE {}), ok \in BOOLEAN :
                  LastIdQueried(i, ok))

(***************************************************************************)
(* Claims about the adapter                                                *)
(***************************************************************************)

\* The rewrite the claim describes, from index i: k is the next marker's number,
\* literal says whether the scan is inside a string literal, escaped whether the
\* piece before was a backslash that was not itself escaped
RECURSIVE Rewritten(_, _, _, _, _)
Rewritten(sql, i, k, literal, escaped) ==
    IF i > Len(sql)
    THEN <<>>
    ELSE LET lit == IF sql[i] = Quote /\ ~escaped THEN ~literal ELSE literal
             hit == sql[i] = Placeholder /\ ~lit
         IN  <<IF hit THEN Marker(k) ELSE sql[i]>>
             \o Rewritten(sql, i + 1, IF hit THEN k + 1 ELSE k, lit,
                          sql[i] = Backslash /\ ~escaped)

\* C7 (as claimed): the rewrite replaces the k-th ? outside string literals by $k and
\* leaves every other piece as it is, a literal starting and ending at each single
\* quote that is not escaped.
C7_ReplacePlaceholder ==
    (call.fn = "replacePlaceholder" /\ call.pc = "returned") =>
        call.out = Rewritten(call.sql, 1, 1, FALSE, FALSE)

\* A rewrite of a text with a ? inside a literal and one outside
C7_Witness ==
    /\ call.fn = "replacePlaceholder"
    /\ call.pc = "returned"
    /\ call.sql = <<Quote, Placeholder, Quote, Placeholder>>
    /\ call.out = <<Quote, Placeholder, Quote, Marker(1)>>

\* The error the claim names
UnsupportedReturningError == "UnsupportedReturningError"

\* C8 (as claimed): an insert on a MySQL adapter with more than one returning
\* column sends no INSERT statement, and it settles rejected with
\* UnsupportedReturningError.
C8_MysqlReturning ==
    (/\ call.fn = "insert"
     /\ call.driver = "mysql"
     /\ Len(call.arg.columns) > 1
     /\ call.pc # "called") =>
        /\ \A i \in 1..Len(call.sent) : call.sent[i].kind # "insert"
        /\ call.pc \in {"resolved", "rejected"} =>
              (call.pc = "rejected" /\ call.err = UnsupportedReturningError)

\* MysqlAdapter.insert with two returning columns, rejected with nothing sent
C8_Witness ==
    /\ call.fn = "insert"
    /\ call.impl = "ts"
    /\ Len(call.arg.columns) = 2
    /\ call.pc = "rejected"
    /\ call.sent = <<>>

\* Adapter.prototype.insert on mysql with two returning columns, resolved after
\* the INSERT and two lookups of the last insert id
C8_Sent ==
    /\ call.fn = "insert"
    /\ call.impl = "js"
    /\ call.driver = "mysql"
    /\ Len(call.arg.columns) = 2
    /\ call.pc = "resolved"
    /\ call.sent = <<InsertStatement, lastIdStatement("mysql", "id"),
                     lastIdStatement("mysql", "seq")>>

\* A segment wrapped in the quote character
Wrapped(segment, symbol) ==
    /\ Len(segment) >= 2
    /\ segment[1] = symbol
    /\ segment[Len(segment)] = symbol
    /\ \A i \in 2..(Len(segment) - 1) : segment[i] # symbol

\* C10 (as claimed): every dot-separated segment of quoteIdentifier's result is
\* wrapped in the quote character, and quoting the result again changes nothing.
C10_QuoteIdentifier ==
    (call.fn = "quoteIdentifier" /\ call.pc = "returned") =>
        LET symbol == IdentifierSymbol(call.driver) IN
        /\ \A i \in 1..Len(Split(call.out, Dot)) : Wrapped(Split(call.out, Dot)[i], symbol)
        /\ quoteIdentifier(symbol, call.out) = call.out

\* quoteIdentifier on a two-segment name, wrapping both segments
C10_Witness ==
    /\ call.fn = "quoteIdentifier"
    /\ call.pc = "returned"
    /\ call.identifier = <<"a", Dot, "a">>
    /\ call.driver = "postgres"
    /\ call.out = <<DoubleQuote, "a", DoubleQuote, Dot, DoubleQuote, "a", DoubleQuote>>

\* The places of text that hold a single quote no backslash escapes, from index i:
\* escaped says whether the piece before was a backslash not itself escaped
RECURSIVE Unescaped(_, _, _)
Unescaped(text, i, escaped) ==
    IF i > Len(text)
    THEN {}
    ELSE (IF text[i] = Quote /\ ~escaped THEN {i} ELSE {})
         \cup Unescaped(text, i + 1, text[i] = Backslash /\ ~escaped)

\* C11 (as claimed): quote returns NULL for null and undefined and an expression's
\* text as it is; for a string it returns the string between two single quotes,
\* with no unescaped single quote between them.
C11_Quote ==
    (call.fn = "quote" /\ call.pc = "returned") =>
        IF call.value.kind = "expr" THEN call.out = call.value.text
        ELSE IF call.value.kind \in {"null", "undefined"} THEN call.out = <<"NULL">>
        ELSE /\ Len(call.out) >= 2
             /\ call.out[1] = Quote
             /\ call.out[Len(call.out)] = Quote
             /\ Unescaped(Sub(call.out, 2, Len(call.out) - 1), 1, FALSE) = {}

\* quote of a string that holds one single quote, which it escapes
C11_Witness ==
    /\ call.fn = "quote"
    /\ call.pc = "returned"
    /\ call.value = [kind |-> "string", text |-> <<"a", Quote, "a">>]
    /\ call.out = <<Quote, "a", Backslash, Quote, "a", Quote>>

\* The pieces of a statement the database reads as parameter markers, in order:
\* the ? and $k outside string literals
RECURSIVE Markers(_, _, _, _)
Markers(sql, i, literal, escaped) ==
    IF i > Len(sql)
    THEN <<>>
    ELSE LET lit == IF sql[i] = Quote /\ ~escaped THEN ~literal ELSE literal
             marker == ~lit /\ (sql[i] = Placeholder \/ \E k \in 1..Len(sql) : sql[i] = Marker(k))
         IN  (IF marker THEN <<sql[i]>> ELSE <<>>)
             \o Markers(sql, i + 1, lit, sql[i] = Backslash /\ ~escaped)

\* The plain values of data, in the order of its entries
RECURSIVE PlainValues(_, _)
PlainValues(data, i) ==
    IF i > Len(data) THEN <<>>
    ELSE (IF ValOf(data[i]).expr THEN <<>> ELSE ValOf(data[i]).text) \o PlainValues(data, i + 1)

\* C9 (as claimed): update sends the plain SET values in the order of the SET list,
\* then the where parameters in their order, none when no where is given; the i-th
\* marker of the statement sent is the one of the i-th parameter.
C9_UpdateParams ==
    (call.fn = "update" /\ call.pc = "returned") =>
        LET n == Len(call.out.params) IN
        /\ call.out.params =
              PlainValues(call.data, 1)
              \o (IF call.w.where = NoWhere THEN <<>> ELSE call.w.items)
        /\ Markers(call.out.sql, 1, FALSE, FALSE) =
              [i \in 1..n |-> IF call.driver = "postgres" THEN Marker(i) ELSE Placeholder]

\* An update with a plain value, an expression and a where with two parameters
C9_Witness ==
    /\ call.fn = "update"
    /\ call.pc = "returned"
    /\ call.driver = "postgres"
    /\ call.data = <<<<<<"a">>, Plain("1")>>, <<<<"b">>, Expr(<<"NOW()">>)>>>>
    /\ call.w = WhereArgs(WhereTwo, "rest", <<"p1", "p2">>)
    /\ call.out.params = <<"1", "p1", "p2">>
    /\ Markers(call.out.sql, 1, FALSE, FALSE) = <<Marker(1), Marker(2), Marker(3)>>

(***************************************************************************)
(* The registry of adapters (adapter.ts) and the construction of adapters  *)
(***************************************************************************)

\* The client of a Knex.Config: sqlite3 is a client Knex knows and factory does not
Clients == {"mysql", "mysql2", "pg", "sqlite3"}

\* DBAdapter.factory(options): the adapter constructed, or the error thrown
factory(client) ==
    IF client \in {"mysql", "mysql2"}
    THEN [err |-> Ok, adapter |-> [kind |-> "MysqlAdapter", client |-> client, owner |-> "-"]]
    ELSE IF client = "pg"
    THEN [err |-> Ok, adapter |-> [kind |-> "PgsqlAdapter", client |-> client, owner |-> "-"]]
    ELSE [err |-> PlainError, adapter |-> NoAdapter]

\* The dispatchers registered: to b whatever the arguments, to a, and by argument
Dispatchers ==
    {[x \in DispatchArgs |-> "b"], [x \in DispatchArgs |-> "a"],
     [x \in DispatchArgs |-> IF x = "x" THEN "a" ELSE "b"]}

\* The name get looks up: the dispatcher's, when name has one
resolve(name, args) ==
    IF dispatchers[name] # NoDispatcher THEN dispatchers[name][args] ELSE name

\* DBAdapter.register(name, config): factory first, then the registry is set.
\* owner tells the instances apart: the name an instance was constructed for.
Register(name, client) ==
    /\ LET made == factory(client) IN
       IF made.err # Ok
       THEN /\ result' = [op |-> "register", name |-> name, args |-> client,
                          err |-> made.err, ret |-> NoAdapter]
            /\ UNCHANGED adapters
       ELSE /\ adapters' = [adapters EXCEPT ![name] = [made.adapter EXCEPT !.owner = name]]
            /\ result' = [op |-> "register", name |-> name, args |-> client,
                          err |-> Ok, ret |-> NoAdapter]
    /\ UNCHANGED dispatchers
    /\ UNCHANGED exceptReg

\* DBAdapter.registerDispatcher(name, dispatcher)
RegisterDispatcher(name, dispatcher) ==
    /\ dispatchers' = [dispatchers EXCEPT ![name] = dispatcher]
    /\ result' = [op |-> "registerDispatcher", name |-> name, args |-> "-",
                  err |-> Ok, ret |-> NoAdapter]
    /\ UNCHANGED adapters
    /\ UNCHANGED exceptReg

\* DBAdapter.get(name, ...args)
AdapterGet(name, args) ==
    /\ LET target == resolve(name, args)
           adapter == adapters[target]
       IN  IF adapter = NoAdapter
           THEN /\ result' = [op |-> "get", name |-> name, args |-> args,
                              err |-> PlainError, ret |-> NoAdapter]
                /\ UNCHANGED adapters
           ELSE IF adapter.kind # "config"
           THEN /\ result' = [op |-> "get", name |-> name, args |-> args,
                              err |-> Ok, ret |-> adapter]
                /\ UNCHANGED adapters
           ELSE LET made == factory(adapter.client) IN
                IF made.err # Ok
                THEN /\ result' = [op |-> "get", name |-> name, args |-> args,
                                   err |-> made.err, ret |-> NoAdapter]
                     /\ UNCHANGED adapters
                ELSE /\ adapters' = [adapters EXCEPT
                                        ![target] = [made.adapter EXCEPT !.owner = target]]
                     /\ result' = [op |-> "get", name |-> name, args |-> args, err |-> Ok,
                                   ret |-> [made.adapter EXCEPT !.owner = target]]
    /\ UNCHANGED dispatchers
    /\ UNCHANGED exceptReg

\* The scheme of a dsn, what /^(\w+):/ matches: none for a dsn it does not match
Schemes == {"postgres", "mysql", "sqlite3", "none"}

\* new Adapter(dsn, options) of part_000: match(...)[1] throws on a dsn with no
\* scheme; a driver of _driver extends the adapter, any other is let through
newAdapter(scheme) ==
    IF scheme = "none"
    THEN [err |-> TypeError, adapter |-> NoAdapter]
    ELSE [err |-> Ok,
          adapter |-> [kind |-> "Adapter",
                       client |-> IF scheme \in Drivers THEN scheme ELSE "-",
                       owner |-> "-"]]

NewAdapter(scheme) ==
    /\ LET made == newAdapter(scheme) IN
       result' = [op |-> "new Adapter", name |-> "-", args |-> scheme,
                  err |-> made.err, ret |-> made.adapter]
    /\ UNCHANGED <<adapters, dispatchers>>
    /\ UNCHANGED exceptReg

RegNext ==
    \/ \E name \in Names, client \in Clients : Register(name, client)
    \/ \E name \in Names, dispatcher \in Dispatchers : RegisterDispatcher(name, dispatcher)
    \/ \E name \in Names, args \in DispatchArgs : AdapterGet(name, args)
    \/ \E scheme \in Schemes : NewAdapter(scheme)

\* The registry under every call
RegSpec == Init /\ [][RegNext]_vars

(***************************************************************************)
(* Claims about the registry                                               *)
(***************************************************************************)

\* The errors the claims name
UnknownAdapterError == "UnknownAdapterError"

UnsupportedClientError == "UnsupportedClientError"

\* What get has to do: look up the name the dispatcher of name gives (name itself
\* without one), return the adapter registered under it, and change no registry
\* when there is none
GetResolves ==
    [][result'.op = "get" =>
        LET name == result'.name
            target == IF dispatchers[name] # NoDispatcher
                      THEN dispatchers[name][result'.args] ELSE name
        IN  /\ dispatchers' = dispatchers
            /\ IF adapters[target] = NoAdapter
               THEN result'.err # Ok /\ adapters' = adapters
               ELSE result'.err = Ok /\ result'.ret = adapters[target]]_vars

\* C12 (as claimed): get(name, args) looks up the name the dispatcher of name gives
\* for args (name itself without a dispatcher); with no adapter registered under it
\* the call fails with UnknownAdapterError and changes no registry, else it returns
\* the adapter registered under it.
C12_GetUnknown ==
    [][result'.op = "get" =>
        LET name == result'.name
            target == IF dispatchers[name] # NoDispatcher
                      THEN dispatchers[name][result'.args] ELSE name
        IN  /\ dispatchers' = dispatchers
            /\ IF adapters[target] = NoAdapter
               THEN result'.err = UnknownAdapterError /\ adapters' = adapters
               ELSE result'.err = Ok /\ result'.ret = adapters[target]]_vars

\* A lookup of a, which has an adapter of its own, sent by a's dispatcher to b
C12_Witness ==
    /\ result.op = "get"
    /\ result.name = "a"
    /\ result.err = Ok
    /\ adapters["a"] # NoAdapter
    /\ dispatchers["a"][result.args] = "b"
    /\ result.ret = adapters["b"]
    /\ result.ret.owner = "b"


\* C13 (as claimed): register with a client factory does not know fails with
\* UnsupportedClientError and leaves the registry of adapters as it was; new Adapter
\* with a dsn whose driver is not one of _driver fails with UnsupportedClientError.
C13_UnsupportedClient ==
    [][/\ (result'.op = "register" /\ result'.args \notin {"mysql", "mysql2", "pg"}) =>
            (result'.err = UnsupportedClientError /\ adapters' = adapters)
       /\ (result'.op = "new Adapter" /\ result'.args \notin Drivers) =>
            result'.err = UnsupportedClientError]_vars

\* A register with an unknown client that failed, for a name that keeps the
\* adapter it had
C13_Witness ==
    /\ result.op = "register"
    /\ result.args = "sqlite3"
    /\ result.err # Ok
    /\ adapters[result.name] # NoAdapter

\* new Adapter with an unknown driver, which returned an adapter of no driver
C13_Constructed ==
    /\ result.op = "new Adapter"
    /\ result.args = "sqlite3"
    /\ result.err = Ok
    /\ result.ret.client = "-"

\* The sequence the claim names for a table and a column: <table>_<column>_seq,
\* after <schema>. when the table was given with a schema, the quote characters of
\* the table name taken out
SequenceName(table, column) ==
    LET parts == Split(SelectSeq(table, LAMBDA c : c # DoubleQuote), Dot)
        sequence == parts[Len(parts)] \o <<"_">> \o column \o <<"_seq">>
    IN  IF Len(parts) = 2 THEN parts[1] \o <<Dot>> \o sequence ELSE sequence

\* A name with each of its dot-separated segments in double quotes
Quoted(name) ==
    LET segments == Split(name, Dot) IN
    Join([i \in 1..Len(segments) |-> <<DoubleQuote>> \o segments[i] \o <<DoubleQuote>>], Dot)

\* C16 (as claimed): without a table or a column the statement is SELECT LASTVAL()
\* AS last_id; else it is SELECT CURRVAL('<seq>') AS last_id for the sequence the
\* claim names, written bare or with each segment quoted.
C16_LastIdStatement ==
    (call.fn = "lastIdStatement" /\ call.pc = "returned") =>
        IF call.table = <<>> \/ call.column = <<>>
        THEN call.out = <<"SELECT LASTVAL() AS last_id">>
        ELSE LET sequence == SequenceName(call.table, call.column) IN
             \/ call.out = <<"SELECT CURRVAL('">> \o sequence \o <<"') AS last_id">>
             \/ call.out = <<"SELECT CURRVAL('">> \o Quoted(sequence) \o <<"') AS last_id">>

\* The statement for a quoted table name without schema and the column id
C16_Witness ==
    /\ call.fn = "lastIdStatement"
    /\ call.pc = "returned"
    /\ call.table = <<DoubleQuote, "t", DoubleQuote>>
    /\ call.out = <<"SELECT CURRVAL('", DoubleQuote, "t", "_", "id", "_seq", DoubleQuote,
                    "') AS last_id">>

(***************************************************************************)
(* Claims about the connections of insert                                  *)
(***************************************************************************)

\* A call of Adapter.prototype.insert
JsInsert == call.fn = "insert" /\ call.impl = "js"

Settled == call.pc \in {"resolved", "rejected"}

\* C14: a call of insert releases at most once; it has released nothing when it
\* acquired no connection; once it is settled with a connection acquired it has
\* released it exactly once; and a connection it holds is released in the end,
\* whether the INSERT succeeds, the INSERT fails or a lookup fails.
C14_ReleasedOnce ==
    /\ [](JsInsert =>
            /\ call.released <= 1
            /\ call.conn = NoConn => (call.released = 0 /\ ~call.held)
            /\ (Settled /\ call.conn # NoConn) => (call.released = 1 /\ ~call.held))
    /\ (JsInsert /\ call.held) ~> (JsInsert /\ call.released = 1 /\ ~call.held)

\* An insert whose INSERT succeeded and one of whose two lookups failed, with the
\* connection released once
C14_Witness ==
    /\ JsInsert
    /\ call.pc = "rejected"
    /\ call.inserted = "ok"
    /\ Len(call.returning) = 2
    /\ call.conn # NoConn
    /\ call.released = 1

\* The places of sent that hold a lookup of a generated id
Lookups == {i \in 1..Len(call.sent) : call.sent[i].kind = "lastId"}

\* C19: a lookup of a generated id is sent only once the INSERT has succeeded, on
\* the connection the INSERT was sent on, one for each returning column; none is
\* sent when the INSERT failed and none when no returning column was asked for.
C19_LookupsAfterInsert ==
    JsInsert =>
        /\ Lookups # {} =>
              /\ call.inserted = "ok"
              /\ call.sent[1] = InsertStatement
              /\ Cardinality(Lookups) = Len(call.returning)
              /\ \A i \in Lookups : call.on[i] = call.on[1] /\ call.on[i] = call.conn
        /\ call.inserted = "failed" => Lookups = {}
        /\ call.returning = <<>> => Lookups = {}
        /\ (call.inserted = "ok" /\ call.returning # <<>>) => Lookups # {}

\* An insert with two returning columns on postgres, its INSERT done and both
\* lookups sent on the connection of the INSERT
C19_Witness ==
    /\ JsInsert
    /\ call.driver = "postgres"
    /\ call.inserted = "ok"
    /\ call.conn = 2
    /\ call.sent = <<InsertStatement, lastIdStatement("postgres", "id"),
                     lastIdStatement("postgres", "seq")>>
    /\ call.on = <<2, 2, 2>>

\* A statement of the call is sent and not yet answered
Outstanding == call.inserted = "sent" \/ call.pending # {}

\* C20 (as claimed): insert does not release its connection while a statement it
\* sent on it, the INSERT or a lookup, is not yet answered.
C20_NoReleaseInFlight ==
    (JsInsert /\ call.released > 0) => ~Outstanding

\* An insert with two returning columns whose lookups were both answered before
\* the connection was released
C20_Witness ==
    /\ JsInsert
    /\ Len(call.returning) = 2
    /\ call.pc = "resolved"
    /\ call.released = 1
    /\ ~Outstanding

(***************************************************************************)
(* The pool of an adapter instance                                         *)
(***************************************************************************)
MaxOps == 3

MaxDisconnects == 1

\* Adapter.prototype._pool, when createPool would return the pool made: the pool
\* there is, or a new one with pool.close registered for every signal
poolOf(inst, made) ==
    IF inst.pool # NoPool
    THEN inst
    ELSE [inst EXCEPT !.pool = made, !.created = @ + 1,
                      !.handlers = [e \in Signals |-> @[e] + 1]]

\* DBAdapter.connect, when Knex(options) would return the client made
connect(inst, made) ==
    IF inst.pool # NoPool
    THEN inst
    ELSE [inst EXCEPT !.pool = made, !.created = @ + 1]

\* insert, update, delete or a query on instance i: each asks for the pool first,
\* through _pool() on an Adapter and through connect() on a DBAdapter
Operation(i) ==
    /\ instances[i].ops < MaxOps
    /\ LET inst == instances[i]
           after == IF inst.impl = "js" THEN poolOf(inst, pools + 1)
                    ELSE connect(inst, pools + 1)
       IN  /\ instances' = [instances EXCEPT ![i] = [after EXCEPT !.ops = @ + 1]]
           /\ pools' = IF after.created # inst.created THEN pools + 1 ELSE pools
    /\ UNCHANGED exceptPool

\* DBAdapter.disconnect on instance i: without a client it resolves; else the
\* client is destroyed and deleted, or destroy fails and the client is kept
Disconnect(i, ok) ==
    /\ instances[i].impl = "ts"
    /\ instances[i].disconnects < MaxDisconnects
    /\ instances' = IF instances[i].pool # NoPool /\ ok
                    THEN [instances EXCEPT ![i].pool = NoPool, ![i].disconnects = @ + 1]
                    ELSE instances
    /\ UNCHANGED pools
    /\ UNCHANGED exceptPool

PoolInit ==
    /\ DataInit /\ SqlIdle /\ RegIdle
    /\ instances \in [Insts -> {NewInstance("js"), NewInstance("ts")}]
    /\ pools = 0

PoolNext ==
    \/ \E i \in Insts : Operation(i)
    \/ \E i \in Insts, ok \in BOOLEAN : Disconnect(i, ok)

\* Two adapter instances under every sequence of operations
PoolSpec == PoolInit /\ [][PoolNext]_vars

\* The pool of an instance is created once, with the first operation, and its
\* handlers registered once, while the instance is not disconnected
CreatedOnce(i) ==
    /\ instances[i].disconnects = 0 => instances[i].created <= 1
    /\ instances[i].created > 0 => instances[i].ops > 0
    /\ instances[i].ops > 0 => instances[i].created > 0

\* C15 (as claimed): an instance creates its pool at most once and not before its
\* first operation, it has registered the teardown handler exactly once for each
\* exit signal once the pool is there (and never more), and no two instances have
\* the same pool.
C15_PoolOnce ==
    /\ \A i \in Insts :
          /\ CreatedOnce(i)
          /\ \A e \in Signals :
                instances[i].handlers[e] = IF instances[i].created > 0 THEN 1 ELSE 0
    /\ \A i, j \in Insts :
          (i # j /\ instances[i].pool # NoPool) => instances[i].pool # instances[j].pool

\* What holds of the Adapter of part_000, which is the one that registers handlers
AdapterPoolOnce ==
    /\ \A i \in Insts :
          /\ CreatedOnce(i)
          /\ instances[i].impl = "js" =>
                \A e \in Signals :
                    instances[i].handlers[e] = IF instances[i].created > 0 THEN 1 ELSE 0
    /\ \A i, j \in Insts :
          (i # j /\ instances[i].pool # NoPool) => instances[i].pool # instances[j].pool

\* Two Adapters, each after several operations, each with its own pool
C15_Witness ==
    /\ \A i \in Insts :
          /\ instances[i].impl = "js"
          /\ instances[i].ops >= 2
          /\ instances[i].created = 1
          /\ \A e \in Signals : instances[i].handlers[e] = 1
    /\ instances[1].pool # instances[2].pool

(***************************************************************************)
(* Column options.  The column classes are not among the sources; their    *)
(* option handling is written from the tests of column.ts and from the     *)
(* description of ColumnFactory: caller options over the defaults, then    *)
(* the rule for primary keys.                                              *)
(***************************************************************************)
Unset == "unset"

True == "bool:true"

False == "bool:false"

Flags == {"nullable", "primary", "protected", "strict", "refuseUpdate"}

ColumnTypes == {"any", "numeric", "integer", "text", "uuid"}

\* The options a caller passes: each flag true, false or left out, and a default
\* given or left out
CallerOptions ==
    [nullable : {Unset, True, False}, primary : {Unset, True, False},
     protected : {Unset, True, False}, strict : {Unset, True, False},
     refuseUpdate : {Unset, True, False}, default : {Unset, Null, Num1}]

\* The defaults of every column type
defaultOptions ==
    [nullable |-> False, primary |-> False, protected |-> False, strict |-> False,
     refuseUpdate |-> False, default |-> Null]

\* (mutant) the caller's options over the defaults, and no more
mergeOptions(options) ==
    [f \in DOMAIN defaultOptions |->
        IF options[f] = Unset THEN defaultOptions[f] ELSE options[f]]

\* The options of a column: the caller's options over the defaults, strict and
\* refuseUpdate forced for a primary key
normalizeOptions(options) ==
    LET merged == [f \in DOMAIN defaultOptions |->
                      IF options[f] = Unset THEN defaultOptions[f] ELSE options[f]]
    IN  IF merged.primary = True
        THEN [merged EXCEPT !.strict = True, !.refuseUpdate = True]
        ELSE merged

ColumnCalls ==
    {[fn |-> "ColumnFactory", pc |-> "called", type |-> type, options |-> options,
      out |-> defaultOptions] : type \in ColumnTypes, options \in CallerOptions}

\* ColumnFactory(type, options).getOptions()
ColumnFactory ==
    /\ call.fn = "ColumnFactory"
    /\ call.pc = "called"
    /\ call' = [call EXCEPT !.pc = "returned", !.out = normalizeOptions(call.options)]
    /\ UNCHANGED exceptSql

ColumnInit == DataInit /\ call \in ColumnCalls /\ RegIdle /\ PoolIdle

ColumnNext == ColumnFactory

\* The columns, on every type and every combination of options
ColumnSpec == ColumnInit /\ [][ColumnNext]_vars

\* C17: a column created with primary true has strict and refuseUpdate true,
\* whatever the caller passed for the two; a column created with no options has
\* every flag false and the default null.
C17_PrimaryOptions ==
    (call.fn = "ColumnFactory" /\ call.pc = "returned") =>
        /\ call.options.primary = True =>
              (call.out.primary = True /\ call.out.strict = True
               /\ call.out.refuseUpdate = True)
        /\ (\A f \in DOMAIN call.options : call.options[f] = Unset) =>
              (/\ \A f \in Flags : call.out[f] = False
               /\ call.out.default = Null)

\* A primary key column created with strict and refuseUpdate passed as false
C17_Witness ==
    /\ call.fn = "ColumnFactory"
    /\ call.pc = "returned"
    /\ call.options.primary = True
    /\ call.options.strict = False
    /\ call.options.refuseUpdate = False
    /\ call.out.strict = True
    /\ call.out.refuseUpdate = True

(***************************************************************************)
(* The entity and the objects its caller holds: the map given to the       *)
(* constructor, which becomes the working values, and the object a get     *)
(* returned.  An object is written by its content, ObjA before the caller  *)
(* changes it and ObjB after.                                              *)
(***************************************************************************)
ObjA == "obj:a"

ObjB == "obj:b"

Objects == {ObjA, ObjB}

\* The object after the caller changed it in place
Mutated(object) == IF object = ObjA THEN ObjB ELSE ObjA

AliasEntries == {<<"a", ObjA>>, <<"a", Num1>>, <<"n", Num1>>, <<"n", StrX>>}

AliasMaps == {<<e>> : e \in AliasEntries} \cup {<<<<"a", ObjA>>, <<"n", Num1>>>>}

AliasArgs ==
    {NoArg, Given(Empty), Given([Empty EXCEPT !["a"] = ObjA]),
     Given([Empty EXCEPT !["n"] = Num1])}

\* The caller writes into the map it gave the constructor
MutateArgument(key, value) ==
    /\ phase = "live"
    /\ alias.map
    /\ Write([values EXCEPT ![key] = value])
    /\ last' = Call("mutate argument", key, value, Ok, "-")
    /\ UNCHANGED <<phase, fresh, snap, alias>>
    /\ Reset
    /\ UNCHANGED exceptData

\* The caller changes the object the last get returned.  Column.clone is not
\* among the sources: what get returned is a copy (the description of get), or
\* the stored object itself, and then the working values show the change.
MutateReturned(same) ==
    /\ phase = "live"
    /\ last.op = "get"
    /\ last.err = Ok
    /\ last.ret \in Objects
    /\ IF same
       THEN Write([values EXCEPT ![last.key] = Mutated(last.ret)])
       ELSE UNCHANGED <<values, staged>>
    /\ last' = Call("mutate returned", last.key, "-", Ok, Mutated(last.ret))
    /\ UNCHANGED <<phase, fresh, snap, alias>>
    /\ Reset
    /\ UNCHANGED exceptData

AliasNext ==
    \/ \E init \in AliasArgs : Construct(init)
    \/ \E e \in AliasEntries : Set(KeyOf(e), ValOf(e))
    \/ \E m \in AliasMaps : Merge(m) /\ Forget
    \/ \E key \in Keys : Get(key)
    \/ Rollback
    \/ Snapshoot
    \/ \E e \in AliasEntries : MutateArgument(KeyOf(e), ValOf(e))
    \/ \E same \in BOOLEAN : MutateReturned(same)

\* The entity and what its caller does to the objects it holds
AliasSpec == Init /\ [][AliasNext]_vars

\* C18: no set, merge or get call, no change the caller makes to a value get
\* returned and none it makes to the map it gave the constructor changes
\* staged.values or staged.fresh: the snapshot is what the last snapshoot() (or the
\* constructor's) captured.
C18_SnapshotUnshared ==
    [][last'.op \in {"set", "merge", "get", "mutate argument", "mutate returned"} =>
        /\ staged' = staged
        /\ staged'.defined => (staged'.values = snap'.values /\ staged'.fresh = snap'.fresh)]_vars

\* The caller changed its map after a snapshoot that captured values: the working
\* values show the change and the snapshot does not
C18_Witness ==
    /\ last.op = "mutate argument"
    /\ alias.map
    /\ staged.values # Empty
    /\ values[last.key] = last.val
    /\ staged.values[last.key] # last.val

====
